---- MODULE Spec2Model ----
(***************************************************************************)
(* State machine of the ScoreGraph React component (src/unnamed/part_000): *)
(* the player list, the shared elapsed-time clock and the handlers that    *)
(* mutate them.  Every handler runs to completion on the event loop, so    *)
(* each handler is one atomic action; queued functional state updates      *)
(* (setPlayers(prev => ...)) are applied in the order they were queued.    *)
(* The wall clock Date.now() is an environment variable that never runs    *)
(* backwards; the model observes it at the instants ClockReadings.         *)
(***************************************************************************)
EXTENDS Integers, Sequences, FiniteSets

VARIABLES
    players,          \* useState([])       : sequence of player records
    firstPlayerTime,  \* useState(null)     : Null or <<seconds>>
    elapsedTime,      \* useState(0)        : seconds shown / x-axis maximum
    nextPlayerId,     \* useState(1)        : id the next player receives
    startTime,        \* startTimeRef.current (ms)
    now,              \* Date.now() (ms), environment
    mounted,          \* the component is mounted, the interval is running
    lastOp,           \* history: the handler that ran last and its inputs
    assignedIds,      \* history: every id handed out, in order of creation
    addedSinceReset,  \* history: a player was added since load / last reset
    scn               \* history: progress through the documented scenario

vars == <<players, firstPlayerTime, elapsedTime, nextPlayerId, startTime, now,
          mounted, lastOp, assignedIds, addedSinceReset, scn>>

----------------------------------------------------------------------------
(* Bounds of the model *)

\* ids 1..MaxPlayerId can be handed out (addPlayer is disabled afterwards)
MaxPlayerId == 2
\* no series grows beyond MaxSeriesLen points
MaxSeriesLen == 3
\* a handler runs for at most HandlerMs ms between two reads of Date.now()
HandlerMs == 1

(* Program constants *)

\* (Date.now() - startTimeRef.current) / 1000
MsPerSecond == 1000
\* setInterval(..., 2000)
TickInterval == 2000
\* Math.floor(Math.random() * 16777215)
ColorRange == 16777215

\* the values of Date.now() the model observes, in ms after the load: the
\* load itself, half a second later, one ms before a second boundary and the
\* boundary itself
ClockReadings == { 0, 500, 2999, 3000 }

\* the instants of the documented scenario: 0 s, 5 s and 8 s after the load
ScenarioReadings == { 0, 5000, 8000 }

----------------------------------------------------------------------------
(* Values *)

\* JavaScript null, for firstPlayerTime; a number t is held as <<t>>
Null == <<>>

\* what prompt('Enter player name:') can return: a string, or null on cancel
PromptResults ==
    { [cancelled |-> FALSE, text |-> "Alice"],
      [cancelled |-> FALSE, text |-> ""],
      [cancelled |-> TRUE,  text |-> ""] }

\* the names entered in the documented scenario
ScenarioPrompts ==
    { [cancelled |-> FALSE, text |-> "Alice"],
      [cancelled |-> FALSE, text |-> "Bob"] }

\* a check that rejects only a cancelled prompt
NotCancelled(r) == ~r.cancelled

\* if (playerName): null and "" are falsy
Truthy(r) == ~r.cancelled /\ r.text # ""

\* values Math.floor(Math.random() * 16777215) is drawn from
RandomInts == { n \in {703710} : 0 <= n /\ n < ColorRange }

\* values the <input type='color'> hands to changePlayerColor
PickerColors == { "#ff0000" }

HexDigit == << "0", "1", "2", "3", "4", "5", "6", "7",
               "8", "9", "a", "b", "c", "d", "e", "f" >>

\* Number.prototype.toString(16) of a non-negative integer
RECURSIVE ToHex(_)
ToHex(n) ==
    IF n < 16 THEN HexDigit[n + 1]
    ELSE ToHex(n \div 16) \o HexDigit[(n % 16) + 1]

\* `#${Math.floor(Math.random() * 16777215).toString(16)}`
RandomColor(n) == "#" \o ToHex(n)

\* Math.floor((Date.now() - startTimeRef.current) / 1000)
Elapsed(t, start) == (t - start) \div MsPerSecond

PlayerIds == 1..MaxPlayerId

\* room for one more point in every series (bound of the model)
CanAppend == \A i \in DOMAIN players : Len(players[i].dataPoints) < MaxSeriesLen

----------------------------------------------------------------------------
(* The pure parts of the handlers *)

\* a new player whose series is seeded at time 0 instead of the elapsed time
NewPlayerSeededAtZero(id, name, color, cur) ==
    [ id |-> id, name |-> name, color |-> color,
      dataPoints |-> << <<0, 0>> >>, yValue |-> 0 ]

\* the record addPlayer appends
NewPlayer(id, name, color, cur) ==
    [ id |-> id, name |-> name, color |-> color,
      dataPoints |-> << <<cur, 0>> >>, yValue |-> 0 ]

\* a firstPlayerTime that every addPlayer overwrites
FirstPlayerTimeOverwritten(fpt, cur) == <<cur>>

\* if (firstPlayerTime === null) setFirstPlayerTime(currentElapsedTime)
FirstPlayerTimeAfterAdd(fpt, cur) == IF fpt = Null THEN <<cur>> ELSE fpt

\* a filter that also drops the players created before the named one
RemoveUpToId(ps, id) == SelectSeq(ps, LAMBDA p : p.id > id)

\* prev.filter(player => player.id !== id)
RemoveById(ps, id) == SelectSeq(ps, LAMBDA p : p.id # id)

\* an append that forgets to spread the existing points
AppendDroppingHistory(ps, cur) ==
    [ i \in DOMAIN ps |->
        [ ps[i] EXCEPT !.dataPoints = << <<cur, ps[i].yValue>> >> ] ]

\* an append that records the point only for the players whose score is not 0
AppendToScored(ps, cur) ==
    [ i \in DOMAIN ps |->
        IF ps[i].yValue = 0 THEN ps[i]
        ELSE [ ps[i] EXCEPT !.dataPoints = Append(@, <<cur, ps[i].yValue>>) ] ]

\* prev.map(player => ({...player, dataPoints: [...player.dataPoints,
\*                      [currentElapsedTime, player.yValue]]}))
AppendToAll(ps, cur) ==
    [ i \in DOMAIN ps |->
        [ ps[i] EXCEPT !.dataPoints = Append(@, <<cur, ps[i].yValue>>) ] ]

\* a score update with a floor at 0
AdjustScoreFloored(ps, id, d) ==
    [ i \in DOMAIN ps |->
        IF ps[i].id = id
        THEN [ ps[i] EXCEPT !.yValue = IF @ + d < 0 THEN 0 ELSE @ + d ]
        ELSE ps[i] ]

\* prev.map(player => player.id === id
\*            ? {...player, yValue: player.yValue + d} : player)
AdjustScore(ps, id, d) ==
    [ i \in DOMAIN ps |->
        IF ps[i].id = id THEN [ ps[i] EXCEPT !.yValue = @ + d ] ELSE ps[i] ]

\* a color change that forgets to compare the id
SetColorOfAll(ps, id, newColor) ==
    [ i \in DOMAIN ps |-> [ ps[i] EXCEPT !.color = newColor ] ]

\* prev.map(player => player.id === id ? {...player, color: newColor} : player)
SetColor(ps, id, newColor) ==
    [ i \in DOMAIN ps |->
        IF ps[i].id = id THEN [ ps[i] EXCEPT !.color = newColor ] ELSE ps[i] ]

\* a reset that clears the series but keeps the scores
ResetPlayersKeepScore(ps, fpt) ==
    [ i \in DOMAIN ps |->
        [ ps[i] EXCEPT !.dataPoints =
                           << << IF fpt # Null THEN fpt[1] ELSE 0, 0 >> >> ] ]

\* a reset that seeds every series at time 0, whatever firstPlayerTime is
ResetPlayersAtZero(ps, fpt) ==
    [ i \in DOMAIN ps |->
        [ ps[i] EXCEPT !.yValue = 0, !.dataPoints = << <<0, 0>> >> ] ]

\* prev.map(player => ({...player, yValue: 0,
\*            dataPoints: [[firstPlayerTime !== null ? firstPlayerTime : 0, 0]]}))
ResetPlayers(ps, fpt) ==
    [ i \in DOMAIN ps |->
        [ ps[i] EXCEPT !.yValue = 0,
                       !.dataPoints =
                           << << IF fpt # Null THEN fpt[1] ELSE 0, 0 >> >> ] ]

----------------------------------------------------------------------------
(* History of the documented scenario: Alice at 0, +1 Alice at 5, Bob at   *)
(* 5, -1 Bob at 8, reset.  scn counts the steps taken so far; any other    *)
(* handler (a tick included) leaves the scenario (Off).                    *)
Off == 0 - 1

ScnAfter(op, name, id, cur) ==
    IF scn = 0 /\ op = "addPlayer" /\ name = "Alice" /\ cur = 0 THEN 1
    ELSE IF scn = 1 /\ op = "increment" /\ id = players[1].id /\ cur = 5 THEN 2
    ELSE IF scn = 2 /\ op = "addPlayer" /\ name = "Bob" /\ cur = 5 THEN 3
    ELSE IF scn = 3 /\ op = "decrement" /\ id = players[2].id /\ cur = 8 THEN 4
    ELSE IF scn = 4 /\ op = "reset" THEN 5
    ELSE Off

\* an entry of the history lastOp: the handler, the id it was given, and for
\* addPlayer what prompt() returned
Event(op, id, text, cancelled) ==
    [op |-> op, id |-> id, text |-> text, cancelled |-> cancelled]

----------------------------------------------------------------------------
(* Initial state: the first render *)

Init ==
    /\ players = <<>>
    /\ firstPlayerTime = Null
    /\ elapsedTime = 0
    /\ nextPlayerId = 1
    /\ now = 0
    /\ startTime = now
    /\ mounted = TRUE
    /\ lastOp = Event("mount", 0, "", FALSE)
    /\ assignedIds = <<>>
    /\ addedSinceReset = FALSE
    /\ scn = 0

----------------------------------------------------------------------------
(* Handlers *)

\* a next id derived from the number of players present
NextIdFromCount(id) == Len(players) + 2

\* setNextPlayerId(nextPlayerId + 1)
NextIdAfterAdd(id) == id + 1

\* addPlayer: r is what prompt() returned, n the random number of the color
AddPlayer(r, n) ==
    /\ mounted
    /\ IF Truthy(r)
       THEN LET cur == Elapsed(now, startTime) IN
            /\ nextPlayerId <= MaxPlayerId
            /\ firstPlayerTime' = FirstPlayerTimeAfterAdd(firstPlayerTime, cur)
            /\ players' = Append(players,
                   NewPlayer(nextPlayerId, r.text, RandomColor(n), cur))
            /\ nextPlayerId' = NextIdAfterAdd(nextPlayerId)
            /\ assignedIds' = Append(assignedIds, players'[Len(players')].id)
            /\ addedSinceReset' = TRUE
            /\ lastOp' = Event("addPlayer", nextPlayerId, r.text, r.cancelled)
            /\ scn' = ScnAfter("addPlayer", r.text, 0, cur)
       ELSE /\ UNCHANGED <<players, firstPlayerTime, nextPlayerId,
                           assignedIds, addedSinceReset>>
            /\ lastOp' = Event("addPlayer", 0, r.text, r.cancelled)
            /\ scn' = ScnAfter("addPlayer", "", 0, 0)
    /\ UNCHANGED <<elapsedTime, startTime, now, mounted>>

\* removePlayer(id)
RemovePlayer(id) ==
    /\ mounted
    /\ players' = RemoveById(players, id)
    /\ lastOp' = Event("removePlayer", id, "", FALSE)
    /\ scn' = ScnAfter("removePlayer", "", id, 0)
    /\ UNCHANGED <<firstPlayerTime, elapsedTime, nextPlayerId, startTime, now,
                   mounted, assignedIds, addedSinceReset>>

\* an update that appends the scores of the rendered list instead of those
\* of the list it is applied to
UpdateAllPlayersStale(ps, t) ==
    LET currentElapsedTime == Elapsed(t, startTime) IN
    [ players |-> [ i \in DOMAIN ps |->
                      [ ps[i] EXCEPT !.dataPoints =
                          Append(@, <<currentElapsedTime, players[i].yValue>>) ] ],
      elapsedTime |-> currentElapsedTime ]

\* updateAllPlayersWithTime applied to the player list ps at clock reading t:
\* the new player list and the new elapsedTime
UpdateAllPlayersWithTime(ps, t) ==
    LET currentElapsedTime == Elapsed(t, startTime) IN
    [ players |-> AppendToAll(ps, currentElapsedTime),
      elapsedTime |-> currentElapsedTime ]

\* incrementPlayer(id): the score update is queued first, then the append
IncrementPlayer(id) ==
    /\ mounted
    /\ CanAppend
    /\ LET u == UpdateAllPlayersWithTime(AdjustScore(players, id, 1), now) IN
       /\ players' = u.players
       /\ elapsedTime' = u.elapsedTime
       /\ scn' = ScnAfter("increment", "", id, u.elapsedTime)
    /\ lastOp' = Event("increment", id, "", FALSE)
    /\ UNCHANGED <<firstPlayerTime, nextPlayerId, startTime, now, mounted,
                   assignedIds, addedSinceReset>>

\* decrementPlayer(id)
DecrementPlayer(id) ==
    /\ mounted
    /\ CanAppend
    /\ LET u == UpdateAllPlayersWithTime(AdjustScore(players, id, 0 - 1), now) IN
       /\ players' = u.players
       /\ elapsedTime' = u.elapsedTime
       /\ scn' = ScnAfter("decrement", "", id, u.elapsedTime)
    /\ lastOp' = Event("decrement", id, "", FALSE)
    /\ UNCHANGED <<firstPlayerTime, nextPlayerId, startTime, now, mounted,
                   assignedIds, addedSinceReset>>

\* changePlayerColor(id, newColor)
ChangePlayerColor(id, newColor) ==
    /\ mounted
    /\ players' = SetColor(players, id, newColor)
    /\ lastOp' = Event("setColor", id, "", FALSE)
    /\ scn' = ScnAfter("setColor", "", id, 0)
    /\ UNCHANGED <<firstPlayerTime, elapsedTime, nextPlayerId, startTime, now,
                   mounted, assignedIds, addedSinceReset>>

\* resetAllPlayers
ResetAllPlayers ==
    /\ mounted
    /\ players' = ResetPlayers(players, firstPlayerTime)
    /\ startTime' = now
    /\ elapsedTime' = 0
    /\ firstPlayerTime' = Null
    /\ addedSinceReset' = FALSE
    /\ lastOp' = Event("reset", 0, "", FALSE)
    /\ scn' = ScnAfter("reset", "", 0, 0)
    /\ UNCHANGED <<nextPlayerId, now, mounted, assignedIds>>

\* an interval that the cleanup never clears
IntervalNeverCleared == TRUE

\* the interval set up by the effect runs until the cleanup's
\* clearInterval(interval), which React calls on unmount
IntervalActive == mounted

\* an interval callback that works on what its closure saw at mount: the
\* empty player list and the clock origin of the load (0), not the latest
TickFromMountClosure(t2) ==
    /\ IntervalActive
    /\ now >= TickInterval
    /\ CanAppend
    /\ t2 >= now /\ t2 <= now + HandlerMs
    /\ players' = AppendToAll(<<>>, Elapsed(now, 0))
    /\ now' = t2
    /\ elapsedTime' = Elapsed(now', 0)
    /\ lastOp' = Event("tick", 0, "", FALSE)
    /\ scn' = ScnAfter("tick", "", 0, 0)
    /\ UNCHANGED <<firstPlayerTime, nextPlayerId, startTime, mounted,
                   assignedIds, addedSinceReset>>

\* The interval callback.  It reads Date.now() twice: once inside
\* updateAllPlayersWithTime and once for its own setElapsedTime, which is
\* applied last; t2 is the second reading, at most HandlerMs later.
\* The first firing comes no earlier than TickInterval after the mount (at 0).
Tick(t2) ==
    /\ IntervalActive
    /\ now >= TickInterval
    /\ CanAppend
    /\ t2 >= now /\ t2 <= now + HandlerMs
    /\ LET u == UpdateAllPlayersWithTime(players, now) IN
       players' = u.players
    /\ now' = t2
    /\ elapsedTime' = Elapsed(now', startTime)
    /\ lastOp' = Event("tick", 0, "", FALSE)
    /\ scn' = ScnAfter("tick", "", 0, 0)
    /\ UNCHANGED <<firstPlayerTime, nextPlayerId, startTime, mounted,
                   assignedIds, addedSinceReset>>

\* the effect's cleanup: clearInterval(interval) on unmount; the buttons
\* are gone with the component
Unmount ==
    /\ mounted
    /\ mounted' = FALSE
    /\ lastOp' = Event("unmount", 0, "", FALSE)
    /\ scn' = ScnAfter("unmount", "", 0, 0)
    /\ UNCHANGED <<players, firstPlayerTime, elapsedTime, nextPlayerId,
                   startTime, now, assignedIds, addedSinceReset>>

----------------------------------------------------------------------------
(* Export: the snapshot and its JSON text.  The text is a sequence of      *)
(* tokens: one per punctuation mark, digit, sign and white space, and one   *)
(* for the content of a string (none of the strings here needs escaping).   *)

\* a snapshot that holds only the current point of every player
ExportDataCurrentOnly ==
    [ elapsedTime |-> elapsedTime,
      players |-> [ i \in DOMAIN players |->
          [ id |-> players[i].id, name |-> players[i].name,
            color |-> players[i].color,
            dataPoints |-> << <<elapsedTime, players[i].yValue>> >> ] ] ]

\* const exportData = { elapsedTime, players: players.map(player => ({ id,
\*                       name, color, dataPoints })) }
ExportData ==
    [ elapsedTime |-> elapsedTime,
      players |-> [ i \in DOMAIN players |->
          [ id |-> players[i].id, name |-> players[i].name,
            color |-> players[i].color,
            dataPoints |-> players[i].dataPoints ] ] ]

DecDigit == << "0", "1", "2", "3", "4", "5", "6", "7", "8", "9" >>

\* the white space JSON.stringify(value, null, 2) puts between tokens
Ws == "\n"

\* the decimal digits of a natural number
RECURSIVE DigitsOf(_)
DigitsOf(n) ==
    IF n < 10 THEN << DecDigit[n + 1] >>
    ELSE DigitsOf(n \div 10) \o << DecDigit[(n % 10) + 1] >>

\* JSON text of an integer
NumText(n) == IF n < 0 THEN << "-" >> \o DigitsOf(0 - n) ELSE DigitsOf(n)

\* JSON text of a string
StrText(str) == << "\"", str, "\"" >>

\* the texts of a sequence, separated by commas and line breaks
RECURSIVE Joined(_)
Joined(texts) ==
    IF texts = <<>> THEN <<>>
    ELSE IF Len(texts) = 1 THEN << Ws >> \o texts[1] \o << Ws >>
    ELSE << Ws >> \o texts[1] \o << "," >> \o Joined(Tail(texts))

\* JSON text of an array, given the texts of its elements
ArrText(texts) == << "[" >> \o Joined(texts) \o << "]" >>

\* JSON text of an object, given its keys and the texts of their values
ObjText(keys, texts) ==
    << "{" >>
    \o Joined([ k \in DOMAIN keys |->
                  StrText(keys[k]) \o << ":", " " >> \o texts[k] ])
    \o << "}" >>

PointText(pt) == ArrText(<< NumText(pt[1]), NumText(pt[2]) >>)

SeriesText(dp) == ArrText([ k \in DOMAIN dp |-> PointText(dp[k]) ])

PlayerText(pl) ==
    ObjText(<< "id", "name", "color", "dataPoints" >>,
            << NumText(pl.id), StrText(pl.name), StrText(pl.color),
               SeriesText(pl.dataPoints) >>)

\* JSON.stringify(exportData, null, 2)
JsonStringify(data) ==
    ObjText(<< "elapsedTime", "players" >>,
            << NumText(data.elapsedTime),
               ArrText([ i \in DOMAIN data.players |->
                           PlayerText(data.players[i]) ]) >>)

\* --- reading the file back: JSON.parse over the token text ---
\* The parser walks the text by position; a result is bound with Only so
\* that it is computed once.

Only(S) == CHOOSE x \in S : TRUE

IsWs(tok) == tok = Ws \/ tok = " "

\* the position of the first token at or after i that is not white space
RECURSIVE SkipWs(_, _)
SkipWs(toks, i) ==
    IF i <= Len(toks) /\ IsWs(toks[i]) THEN SkipWs(toks, i + 1) ELSE i

IsDigit(tok) == \E d \in DOMAIN DecDigit : DecDigit[d] = tok

DigitValue(tok) == (CHOOSE d \in DOMAIN DecDigit : DecDigit[d] = tok) - 1

\* the digits from position i on, read as a natural number continuing acc
RECURSIVE ParseDigits(_, _, _)
ParseDigits(toks, i, acc) ==
    IF i <= Len(toks) /\ IsDigit(toks[i])
    THEN ParseDigits(toks, i + 1, 10 * acc + DigitValue(toks[i]))
    ELSE [ v |-> acc, next |-> i ]

\* the object whose members are the <<key, value>> pairs, a later pair
\* winning over an earlier one with the same key
ObjectOf(pairs) ==
    [ key \in { pairs[i][1] : i \in DOMAIN pairs } |->
        LET last == CHOOSE i \in DOMAIN pairs :
                        /\ pairs[i][1] = key
                        /\ \A j \in DOMAIN pairs : pairs[j][1] = key => j <= i
        IN  pairs[last][2] ]

\* the JSON value that starts at position i0:
\* [v |-> the value, next |-> the position after it]
RECURSIVE ParseValue(_, _), ParseItems(_, _, _), ParseMembers(_, _, _)
ParseValue(toks, i0) ==
    Only({ IF toks[i] = "\"" THEN [ v |-> toks[i + 1], next |-> i + 3 ]
           ELSE IF toks[i] = "[" THEN ParseItems(toks, i + 1, <<>>)
           ELSE IF toks[i] = "{" THEN ParseMembers(toks, i + 1, <<>>)
           ELSE IF toks[i] = "-"
                THEN Only({ [ v |-> 0 - r.v, next |-> r.next ] :
                            r \in { ParseDigits(toks, i + 1, 0) } })
                ELSE ParseDigits(toks, i, 0)
           : i \in { SkipWs(toks, i0) } })

ParseItems(toks, i0, acc) ==
    Only({ IF toks[i] = "]" THEN [ v |-> acc, next |-> i + 1 ]
           ELSE IF toks[i] = "," THEN ParseItems(toks, i + 1, acc)
           ELSE Only({ ParseItems(toks, r.next, Append(acc, r.v)) :
                       r \in { ParseValue(toks, i) } })
           : i \in { SkipWs(toks, i0) } })

ParseMembers(toks, i0, acc) ==
    Only({ IF toks[i] = "}" THEN [ v |-> ObjectOf(acc), next |-> i + 1 ]
           ELSE IF toks[i] = "," THEN ParseMembers(toks, i + 1, acc)
           ELSE Only({ Only({ ParseMembers(toks, val.next,
                                           Append(acc, << key.v, val.v >>)) :
                              val \in { ParseValue(toks,
                                            SkipWs(toks, key.next) + 1) } }) :
                       key \in { ParseValue(toks, i) } })
           : i \in { SkipWs(toks, i0) } })

\* JSON.parse(text)
JsonParse(toks) == ParseValue(toks, 1).v

\* exportToJson: the file handed to the browser is recorded in the history
ExportToJson ==
    /\ mounted
    /\ lastOp' = [ op |-> "export", id |-> 0, text |-> "", cancelled |-> FALSE,
                   file |-> JsonStringify(ExportData) ]
    /\ scn' = ScnAfter("export", "", 0, 0)
    /\ UNCHANGED <<players, firstPlayerTime, elapsedTime, nextPlayerId,
                   startTime, now, mounted, assignedIds, addedSinceReset>>

----------------------------------------------------------------------------
\* the environment: time passes
Advance(t) ==
    /\ t > now
    /\ now' = t
    /\ lastOp' = Event("advance", 0, "", FALSE)
    /\ UNCHANGED <<players, firstPlayerTime, elapsedTime, nextPlayerId,
                   startTime, mounted, assignedIds, addedSinceReset, scn>>

Next ==
    \/ \E r \in PromptResults, n \in RandomInts : AddPlayer(r, n)
    \/ \E id \in PlayerIds : RemovePlayer(id)
    \/ \E id \in PlayerIds : IncrementPlayer(id)
    \/ \E id \in PlayerIds : DecrementPlayer(id)
    \/ \E id \in PlayerIds, c \in PickerColors : ChangePlayerColor(id, c)
    \/ ResetAllPlayers
    \/ ExportToJson
    \/ \E t2 \in ClockReadings : Tick(t2)
    \/ Unmount
    \/ \E t \in ClockReadings : Advance(t)

Spec == Init /\ [][Next]_vars

\* The environment of the documented scenario: the user enters "Alice" or
\* "Bob", presses +1, -1 and Reset All at 0 s, 5 s or 8 s, and no tick
\* fires in between.
NextScenario ==
    \/ \E r \in ScenarioPrompts, n \in RandomInts : AddPlayer(r, n)
    \/ \E id \in PlayerIds : IncrementPlayer(id)
    \/ \E id \in PlayerIds : DecrementPlayer(id)
    \/ ResetAllPlayers
    \/ \E t \in ScenarioReadings : Advance(t)

SpecScenario == Init /\ [][NextScenario]_vars

----------------------------------------------------------------------------
(* Vocabulary of the properties *)

\* the time values of a series, in series order
Times(dp) == [ k \in DOMAIN dp |-> dp[k][1] ]

LastOf(q) == q[Len(q)]

\* the step just taken was the handler op
Did(op) == lastOp'.op = op

\* the step just taken was an addPlayer whose prompt returned a usable name
DidAdd == Did("addPlayer") /\ ~lastOp'.cancelled /\ lastOp'.text # ""

\* the step just taken was an addPlayer whose prompt was empty or cancelled
DidRejectedAdd == Did("addPlayer") /\ (lastOp'.cancelled \/ lastOp'.text = "")

\* the index in ps of the player with this id, 0 if absent
IndexOf(ps, id) ==
    IF \E i \in DOMAIN ps : ps[i].id = id
    THEN CHOOSE i \in DOMAIN ps : ps[i].id = id
    ELSE 0

----------------------------------------------------------------------------
(* C1: the ids handed out by addPlayer are pairwise distinct and strictly  *)
(* increasing in order of creation, whatever was removed in between: the   *)
(* list of all ids ever assigned is strictly increasing (so no id, removed *)
(* or not, is assigned twice), and the players present carry assigned ids  *)
(* in increasing order.                                                    *)
C1_IdsUniqueIncreasing ==
    /\ \A i, j \in DOMAIN assignedIds : i < j => assignedIds[i] < assignedIds[j]
    /\ \A i \in DOMAIN players :
           \E k \in DOMAIN assignedIds : assignedIds[k] = players[i].id
    /\ \A i, j \in DOMAIN players : i < j => players[i].id < players[j].id

\* the first player was removed and a second one added afterwards
C1_Witness ==
    /\ assignedIds = <<1, 2>>
    /\ Len(players) = 1
    /\ players[1].id = 2
    /\ lastOp.op = "addPlayer"

(* C2: after incrementScore, decrementScore or tick every present player's *)
(* series is one point longer, the new point has the same x for all        *)
(* players, namely the elapsed time computed by the operation, and that    *)
(* value is the new elapsedTime.                                           *)
C2_SynchronizedAppend ==
    [][ (Did("increment") \/ Did("decrement") \/ Did("tick")) =>
          /\ Len(players') = Len(players)
          /\ \A i \in DOMAIN players :
               /\ Len(players'[i].dataPoints) = Len(players[i].dataPoints) + 1
               /\ LastOf(players'[i].dataPoints)[1] = Elapsed(now, startTime)
               /\ LastOf(players'[i].dataPoints)[1] = elapsedTime'
      ]_vars

(* C3: in every reachable state the time values of each player's series    *)
(* are non-decreasing in series order.                                     *)
C3_TimesNonDecreasing ==
    \A i \in DOMAIN players :
        \A k \in 1..(Len(players[i].dataPoints) - 1) :
            players[i].dataPoints[k][1] <= players[i].dataPoints[k + 1][1]

(* C4: resetAll leaves every present player with score 0 and the single    *)
(* point (t, 0), t being firstPlayerTime before the reset or 0 if it was   *)
(* null; elapsedTime becomes 0, the clock origin becomes now,              *)
(* firstPlayerTime becomes null; the players, their order, ids, names and  *)
(* colors are kept.                                                        *)
C4_ResetAll ==
    [][ Did("reset") =>
          /\ Len(players') = Len(players)
          /\ \A i \in DOMAIN players :
               /\ players'[i].yValue = 0
               /\ players'[i].dataPoints =
                      << << IF firstPlayerTime = Null THEN 0
                            ELSE firstPlayerTime[1], 0 >> >>
               /\ players'[i].id = players[i].id
               /\ players'[i].name = players[i].name
               /\ players'[i].color = players[i].color
          /\ elapsedTime' = 0
          /\ startTime' = now
          /\ firstPlayerTime' = Null
      ]_vars

\* a reset of two players with scores, when firstPlayerTime was not 0
C4_Witness ==
    /\ lastOp.op = "reset"
    /\ Len(players) = 2
    /\ players[1].dataPoints = << <<2, 0>> >>
    /\ startTime > 0

(* C5 as stated: in every reachable state any two present players have     *)
(* series with identical sets of time values.                              *)
C5_SameTimeSets ==
    \A i, j \in DOMAIN players :
        { players[i].dataPoints[k][1] : k \in DOMAIN players[i].dataPoints }
      = { players[j].dataPoints[k][1] : k \in DOMAIN players[j].dataPoints }

\* q is the sequence of the last Len(q) elements of p
IsSuffix(q, p) ==
    /\ Len(q) <= Len(p)
    /\ \A k \in DOMAIN q : q[k] = p[Len(p) - Len(q) + k]

(* C5 amended: any two present players share the x-coordinates of the      *)
(* points appended since the newer of the two was added (or since the last *)
(* reset): the time values of the newer player's series after its first    *)
(* point are, in order, the last time values of the older player's series. *)
C5_SharedAppendedTimes ==
    \A i, j \in DOMAIN players :
        i < j => IsSuffix(Tail(Times(players[j].dataPoints)),
                          Times(players[i].dataPoints))

\* an older player with three points beside a newer one with two
C5_Witness ==
    /\ Len(players) = 2
    /\ Len(players[1].dataPoints) = 3
    /\ Len(players[2].dataPoints) = 2
    /\ players[1].dataPoints[2][1] < players[2].dataPoints[1][1]

(* C6: firstPlayerTime is null exactly when no addPlayer has succeeded      *)
(* since the load or the last resetAll; the first successful addPlayer     *)
(* sets it to the elapsed time of that moment, and later successful        *)
(* addPlayers, removePlayer, incrementScore, decrementScore, setColor and  *)
(* tick leave it unchanged.                                                *)
C6_FirstPlayerTime ==
    /\ (firstPlayerTime = Null <=> ~addedSinceReset)
    /\ [][ /\ (firstPlayerTime' = Null <=> ~addedSinceReset')
           /\ (DidAdd /\ firstPlayerTime = Null =>
                  firstPlayerTime' = << Elapsed(now, startTime) >>)
           /\ (DidAdd /\ firstPlayerTime # Null =>
                  firstPlayerTime' = firstPlayerTime)
           /\ (Did("removePlayer") \/ Did("increment") \/ Did("decrement")
                 \/ Did("setColor") \/ Did("tick") =>
                  firstPlayerTime' = firstPlayerTime)
         ]_vars

\* a second player added later than the first: firstPlayerTime is still 0
C6_Witness ==
    /\ lastOp.op = "addPlayer"
    /\ Len(players) = 2
    /\ players[2].dataPoints = << <<2, 0>> >>
    /\ firstPlayerTime = <<0>>
    /\ addedSinceReset

(* C7: incrementScore(id) / decrementScore(id) on a present player changes *)
(* that player's score by exactly +1 / -1, without floor or ceiling, and   *)
(* no other score; the point appended to the named player carries the new  *)
(* score, the points appended to the others carry their unchanged scores.  *)
C7_ScoreChange ==
    [][ (Did("increment") \/ Did("decrement")) /\ IndexOf(players, lastOp'.id) # 0 =>
          LET d == IF Did("increment") THEN 1 ELSE 0 - 1 IN
          /\ Len(players') = Len(players)
          /\ \A i \in DOMAIN players :
               /\ players'[i].id = players[i].id
               /\ players'[i].yValue =
                      IF players[i].id = lastOp'.id THEN players[i].yValue + d
                      ELSE players[i].yValue
               /\ Len(players'[i].dataPoints) = Len(players[i].dataPoints) + 1
               /\ LastOf(players'[i].dataPoints)[2] = players'[i].yValue
      ]_vars

\* a decrement at score 0 gave -1, beside a player with another score
C7_Witness ==
    /\ lastOp.op = "decrement"
    /\ Len(players) = 2
    /\ IndexOf(players, lastOp.id) # 0
    /\ players[IndexOf(players, lastOp.id)].yValue = 0 - 1
    /\ LastOf(players[IndexOf(players, lastOp.id)].dataPoints)[2] = 0 - 1
    /\ \E i \in DOMAIN players : players[i].yValue = 1

(* C8: the documented scenario, as a trace from a fresh session with no     *)
(* tick in between: addPlayer("Alice") at 0 s gives score 0 and series     *)
(* [[0,0]]; incrementScore(Alice) at 5 s gives score 1 and                 *)
(* [[0,0],[5,1]]; addPlayer("Bob") at 5 s gives Bob [[5,0]] with           *)
(* firstPlayerTime still 0; decrementScore(Bob) at 8 s gives Bob           *)
(* [[5,0],[8,-1]] and Alice [[0,0],[5,1],[8,1]]; resetAll then gives both  *)
(* [[0,0]], both scores 0 and firstPlayerTime null.                        *)
C8_Scenario ==
    /\ scn = 1 =>
         /\ Len(players) = 1
         /\ players[1].name = "Alice"
         /\ players[1].yValue = 0
         /\ players[1].dataPoints = << <<0, 0>> >>
    /\ scn = 2 =>
         /\ Len(players) = 1
         /\ players[1].name = "Alice"
         /\ players[1].yValue = 1
         /\ players[1].dataPoints = << <<0, 0>>, <<5, 1>> >>
    /\ scn = 3 =>
         /\ Len(players) = 2
         /\ players[1].name = "Alice"
         /\ players[1].yValue = 1
         /\ players[1].dataPoints = << <<0, 0>>, <<5, 1>> >>
         /\ players[2].name = "Bob"
         /\ players[2].yValue = 0
         /\ players[2].dataPoints = << <<5, 0>> >>
         /\ firstPlayerTime = <<0>>
    /\ scn = 4 =>
         /\ Len(players) = 2
         /\ players[1].name = "Alice"
         /\ players[1].yValue = 1
         /\ players[1].dataPoints = << <<0, 0>>, <<5, 1>>, <<8, 1>> >>
         /\ players[2].name = "Bob"
         /\ players[2].yValue = 0 - 1
         /\ players[2].dataPoints = << <<5, 0>>, <<8, 0 - 1>> >>
    /\ scn = 5 =>
         /\ Len(players) = 2
         /\ players[1].name = "Alice"
         /\ players[1].yValue = 0
         /\ players[1].dataPoints = << <<0, 0>> >>
         /\ players[2].name = "Bob"
         /\ players[2].yValue = 0
         /\ players[2].dataPoints = << <<0, 0>> >>
         /\ firstPlayerTime = Null

\* the scenario has been played to its end
C8_Witness == scn = 5 /\ lastOp.op = "reset" /\ now = 8000

(* C9: a successful addPlayer(name) appends exactly one player at the end  *)
(* of the list, with a fresh id, the given name, score 0 and the single    *)
(* point (current elapsed time, 0), and leaves the existing players as     *)
(* they were; every present player's series is non-empty in every state.   *)
C9_AddPlayer ==
    /\ \A i \in DOMAIN players : players[i].dataPoints # <<>>
    /\ [][ /\ \A i \in DOMAIN players' : players'[i].dataPoints # <<>>
           /\ DidAdd =>
                /\ Len(players') = Len(players) + 1
                /\ SubSeq(players', 1, Len(players)) = players
                /\ LastOf(players').id = nextPlayerId
                /\ \A k \in DOMAIN assignedIds :
                       assignedIds[k] # LastOf(players').id
                /\ LastOf(players').name = lastOp'.text
                /\ LastOf(players').yValue = 0
                /\ LastOf(players').dataPoints =
                       << << Elapsed(now, startTime), 0 >> >>
         ]_vars

\* a second player added at 2 s beside one with a score and two points
C9_Witness ==
    /\ lastOp.op = "addPlayer"
    /\ lastOp.text = "Alice"
    /\ Len(players) = 2
    /\ players[1].yValue = 1
    /\ Len(players[1].dataPoints) = 2
    /\ players[2].dataPoints = << <<2, 0>> >>

(* C10: addPlayer with an empty name or a cancelled prompt changes         *)
(* nothing: the player list, the next id, firstPlayerTime, elapsedTime and *)
(* the clock origin stay as they were, and a successful addPlayer uses the *)
(* next id as it stands.                                                   *)
C10_RejectedAdd ==
    [][ /\ DidRejectedAdd =>
             /\ players' = players
             /\ nextPlayerId' = nextPlayerId
             /\ firstPlayerTime' = firstPlayerTime
             /\ elapsedTime' = elapsedTime
             /\ startTime' = startTime
        /\ DidAdd => LastOf(players').id = nextPlayerId
      ]_vars

\* an empty name was entered after one player had been added
C10_Witness ==
    /\ lastOp.op = "addPlayer"
    /\ lastOp.text = ""
    /\ ~lastOp.cancelled
    /\ Len(players) = 1
    /\ nextPlayerId = 2

(* C11: incrementScore, decrementScore, setColor and removePlayer given an  *)
(* id that no present player has leave the whole state unchanged: every    *)
(* player's score, color and series, elapsedTime and firstPlayerTime.      *)
C11_AbsentIdNoOp ==
    [][ (Did("increment") \/ Did("decrement") \/ Did("setColor")
           \/ Did("removePlayer")) /\ IndexOf(players, lastOp'.id) = 0 =>
          /\ players' = players
          /\ elapsedTime' = elapsedTime
          /\ firstPlayerTime' = firstPlayerTime
      ]_vars

\* the players of ps other than the one with this id, in order
Others(ps, id) == SelectSeq(ps, LAMBDA p : p.id # id)

(* C12: removePlayer(id) with a present id removes exactly that player:    *)
(* the remaining players keep their order, ids, names, colors, scores and  *)
(* series, and elapsedTime, firstPlayerTime and the next id are unchanged  *)
(* (removing the last player does not clear firstPlayerTime).              *)
C12_RemovePlayer ==
    [][ Did("removePlayer") /\ IndexOf(players, lastOp'.id) # 0 =>
          /\ Len(players') = Len(players) - 1
          /\ IndexOf(players', lastOp'.id) = 0
          /\ players' = Others(players, lastOp'.id)
          /\ elapsedTime' = elapsedTime
          /\ firstPlayerTime' = firstPlayerTime
          /\ nextPlayerId' = nextPlayerId
      ]_vars

\* the older of two players was removed; the last player was removed and
\* firstPlayerTime is still set
C12_Witness ==
    /\ lastOp.op = "removePlayer"
    /\ lastOp.id = 1
    /\ assignedIds = <<1, 2>>
    /\ Len(players) = 1
    /\ players[1].id = 2
    /\ firstPlayerTime # Null

(* C13: setColor(id, color) replaces only the color of the named player:   *)
(* its id, name, score and series, every other player, elapsedTime and     *)
(* firstPlayerTime are unchanged and no point is appended.                 *)
C13_SetColor ==
    [][ Did("setColor") =>
          /\ Len(players') = Len(players)
          /\ \A i \in DOMAIN players :
               IF players[i].id = lastOp'.id
               THEN /\ players'[i].color \in PickerColors
                    /\ players'[i] = [ players[i] EXCEPT !.color = players'[i].color ]
               ELSE players'[i] = players[i]
          /\ elapsedTime' = elapsedTime
          /\ firstPlayerTime' = firstPlayerTime
      ]_vars

\* one of two players has the picked color, the other its random color
C13_Witness ==
    /\ lastOp.op = "setColor"
    /\ Len(players) = 2
    /\ IndexOf(players, lastOp.id) # 0
    /\ players[IndexOf(players, lastOp.id)].color = "#ff0000"
    /\ \E i \in DOMAIN players : players[i].color = "#abcde"
    /\ Len(players[1].dataPoints) = 2

(* C14: after the component is unmounted the periodic tick is cancelled:   *)
(* no tick fires and players, elapsedTime and firstPlayerTime never change *)
(* again, however far the clock advances.                                  *)
C14_NoTickAfterUnmount ==
    [][ ~mounted =>
          /\ ~Did("tick")
          /\ ~mounted'
          /\ players' = players
          /\ elapsedTime' = elapsedTime
          /\ firstPlayerTime' = firstPlayerTime
      ]_vars

\* unmounted before the first tick was due, with a player present, and the
\* clock has since passed the time a tick would have fired
C14_Witness ==
    /\ ~mounted
    /\ now >= TickInterval
    /\ lastOp.op = "advance"
    /\ Len(players) = 1
    /\ elapsedTime = 0

(* C15: exportSnapshot produces, from any reachable state, a file whose     *)
(* elapsedTime is the in-memory elapsedTime and whose player list holds,    *)
(* in order, exactly the id, name, color and series of every present       *)
(* player and no score; reading the file back yields those values; the     *)
(* export leaves the state unchanged.                                      *)
C15_ExportRoundTrip ==
    [][ Did("export") =>
          /\ \E back \in { JsonParse(lastOp'.file) } :
               /\ DOMAIN back = { "elapsedTime", "players" }
               /\ back.elapsedTime = elapsedTime
               /\ Len(back.players) = Len(players)
               /\ \A i \in DOMAIN players :
                    /\ DOMAIN back.players[i] =
                           { "id", "name", "color", "dataPoints" }
                    /\ back.players[i].id = players[i].id
                    /\ back.players[i].name = players[i].name
                    /\ back.players[i].color = players[i].color
                    /\ back.players[i].dataPoints = players[i].dataPoints
          /\ UNCHANGED <<players, firstPlayerTime, elapsedTime, nextPlayerId,
                         startTime, now, mounted>>
      ]_vars

\* an export of two players, one with a negative score, after time passed
C15_Witness ==
    /\ lastOp.op = "export"
    /\ Len(players) = 2
    /\ elapsedTime >= 2
    /\ \E i \in DOMAIN players : players[i].yValue < 0
    /\ players[1].color # players[2].color
    /\ Len(players[1].dataPoints) = 3

\* q begins with the elements of p
IsPrefix(p, q) ==
    /\ Len(p) <= Len(q)
    /\ \A k \in DOMAIN p : q[k] = p[k]

(* C16: a series is append-only except on reset: for every operation other *)
(* than resetAll, each player present before and after it has its previous *)
(* series as a prefix of its new series.                                   *)
C16_AppendOnly ==
    [][ ~Did("reset") =>
          \A i \in DOMAIN players, j \in DOMAIN players' :
              players[i].id = players'[j].id =>
                  IsPrefix(players[i].dataPoints, players'[j].dataPoints)
      ]_vars

\* a tick lengthened a series of two points that already were not all equal
C16_Witness ==
    /\ lastOp.op = "tick"
    /\ Len(players) = 2
    /\ Len(players[1].dataPoints) = 3
    /\ players[1].dataPoints[1] # players[1].dataPoints[2]
    /\ players[1].dataPoints[2] # players[1].dataPoints[3]

(* C17: a tick acts on the latest state, not on the state at mount time:   *)
(* whatever addPlayer, removePlayer, incrementScore, decrementScore,       *)
(* setColor or resetAll came before, a tick keeps exactly the players      *)
(* present, in order, with their ids, names, colors and scores, and the    *)
(* point it appends is timed from the clock origin of the latest reset.    *)
C17_TickOnLatestState ==
    [][ Did("tick") =>
          /\ Len(players') = Len(players)
          /\ \A i \in DOMAIN players :
               /\ players'[i].id = players[i].id
               /\ players'[i].name = players[i].name
               /\ players'[i].color = players[i].color
               /\ players'[i].yValue = players[i].yValue
               /\ players'[i].dataPoints =
                      Append(players[i].dataPoints,
                             << Elapsed(now, startTime), players[i].yValue >>)
          /\ Elapsed(now', startTime) = elapsedTime'
          /\ startTime' = startTime
      ]_vars

\* a tick after an add, a removal, a reset at a later clock origin, a score
\* change and a color change
C17_Witness ==
    /\ lastOp.op = "tick"
    /\ assignedIds = <<1, 2>>
    /\ Len(players) = 1
    /\ startTime > 0
    /\ players[1].yValue # 0
    /\ players[1].color = "#ff0000"
    /\ Len(players[1].dataPoints) = 3
    /\ LastOf(players[1].dataPoints)[1] = Elapsed(now, startTime)

(* C18: in every reachable state the last point of each present player's   *)
(* series has a y-value equal to that player's current score.              *)
C18_LastPointIsScore ==
    \A i \in DOMAIN players :
        /\ players[i].dataPoints # <<>>
        /\ LastOf(players[i].dataPoints)[2] = players[i].yValue

\* scores 1 and -1 after a reset, each on the last point of its series
C18_Witness ==
    /\ Len(players) = 2
    /\ startTime > 0
    /\ players[1].yValue = 1
    /\ players[2].yValue = 0 - 1
    /\ Len(players[1].dataPoints) = 3

\* graphOptions.scales.x.min: firstPlayerTime !== null ? firstPlayerTime : 0
AxisMin == IF firstPlayerTime # Null THEN firstPlayerTime[1] ELSE 0

\* graphOptions.scales.x.max: elapsedTime
AxisMax == elapsedTime

(* C19: in every reachable state the chart's x-axis range is well-formed:  *)
(* its lower bound (firstPlayerTime, or 0 when null) is at most its upper  *)
(* bound elapsedTime.                                                      *)
C19_AxisWellFormed == AxisMin <= AxisMax

(* C20: in every reachable state every point of every present player's     *)
(* series lies inside the chart's x-axis range: its time t satisfies       *)
(* (firstPlayerTime, or 0 when null) <= t <= elapsedTime.                  *)
C20_PointsInsideAxis ==
    \A i \in DOMAIN players :
        \A k \in DOMAIN players[i].dataPoints :
            /\ AxisMin <= players[i].dataPoints[k][1]
            /\ players[i].dataPoints[k][1] <= AxisMax

====
